---------------------------- MODULE Spec2Model ----------------------------
(***************************************************************************)
(* Model of app.py, the Streamlit "Payment Link Generator".                *)
(*                                                                         *)
(* One script run of app.py is split at its remote calls: the cached       *)
(* catalog fetch (get_active_products), the button handler, the two calls  *)
(* of get_or_create_customer and the two calls of create_checkout_session. *)
(* Script runs of the user sessions of the process are taken one at a      *)
(* time: the program keeps nothing per session but the widget values, and  *)
(* these are the inputs of a run.                                          *)
(*                                                                         *)
(* The environment: time passes, prices change upstream, other actors      *)
(* create customers at the processor.  A run reads the clock and the       *)
(* prices only in its first step, get_active_products, so a tick or a      *)
(* price change during a run has the effect of one right after it and is   *)
(* taken between runs.  Another actor's customer matters between the two   *)
(* calls of get_or_create_customer and is taken there as well.             *)
(*                                                                         *)
(* Conventions.                                                            *)
(*  - Python text that the code inspects ("Error" in link) is a sequence   *)
(*    of one-character strings; text that is only passed around is a       *)
(*    string.                                                              *)
(*  - An optional value is <<>> (absent, None) or <<v>>.                   *)
(*  - A Python float of this program is a whole number of ten-thousandths  *)
(*    (every amount is minor/100 and every factor is (100-percent)/100),   *)
(*    so floats are integers scaled by SCALE.                              *)
(***************************************************************************)
EXTENDS Integers, Sequences, FiniteSets, TLC

VARIABLES
  now,          \* wall clock, seconds
  cache,        \* st.cache_data entry of get_active_products: <<>> or <<entry>>
  active,       \* ids of the prices that are active at the processor
  customers,    \* customer records at the processor, oldest first
  lastFetch,    \* history: the latest stripe.Price.list call, its time and the
                \* catalog made of its answer; <<>> if there was none
  prevRes,      \* history: the previous get_or_create_customer call, if it
                \* returned an id and no other actor has created a customer since
                \* it began;
                \* "again": the call before it was one too, for the same email
  resClean,     \* history: no other actor has created a customer since the
                \* running get_or_create_customer began
  pc,           \* position of the script run
  button,       \* button clicked in this run: "none", "existing", "new"
  discount,     \* sidebar number_input
  existing_cus_id, \* tab 1 text input
  new_email,    \* tab 2 text input
  new_name,     \* tab 2 text input
  product_map,  \* result of get_active_products() in this run
  selected,     \* label selected in the tab of the clicked button
  cus_id,       \* customer id handed to create_checkout_session
  session_args, \* session_args of create_checkout_session: <<>> or <<args>>
  link,         \* return value of create_checkout_session: <<>> or <<text>>
  calls,        \* remote calls issued by this run, in order
  shown         \* elements rendered by this run, in order

globals == <<now, cache, active, customers, lastFetch, prevRes, resClean>>
inputs  == <<button, discount, existing_cus_id, new_email, new_name>>
locals  == <<product_map, selected, cus_id, session_args, link>>
vars    == <<globals, pc, inputs, locals, calls, shown>>

---------------------------------------------------------------------------
(* Bounds *)
MaxTime      == 300     \* the clock stops here
TickStep     == 150     \* seconds between two observations of the clock
MaxCustomers == 2       \* customer records the processor holds at most

(* Program constants *)
TTL          == 300     \* @st.cache_data(ttl=300)
PAGE_LIMIT   == 50      \* stripe.Price.list(limit=50)
MIN_DISCOUNT == 0       \* number_input(min_value=0)
MAX_DISCOUNT == 100     \* number_input(max_value=100)
SCALE        == 100 * 100  \* floats are counted in ten-thousandths

None   == <<>>
Some(v) == <<v>>
Truthy(t) == t # <<>>
TruthyText(t) == t # ""

---------------------------------------------------------------------------
(* Text *)

\* needle in hay (Python's substring test on str)
Contains(needle, hay) ==
  \E i \in 0..(Len(hay) - Len(needle)) :
     \A j \in 1..Len(needle) : hay[i + j] = needle[j]

ErrorWord    == <<"E","r","r","o","r">>
\* f"Error: {str(e)}"
ErrorText(msg) == ErrorWord \o <<":"," ">> \o msg

\* messages of the exceptions the stripe library raises
ErrorMessages == { <<"d","o","w","n">>, <<"N","o"," ","k","e","y">> }

\* session.url values the processor may answer with
SessionUrls ==
  { <<"/","p","a","y","/","a","1">>,
    <<"/","p","a","y","/","e","r","r","o","r">>,
    <<"/","p","a","y","/","x","E","r","r","o","r","9">> }

---------------------------------------------------------------------------
(* Prices at the processor *)

Prices ==
  << [id |-> "price_pro", unit_amount |-> Some(2000), currency |-> "usd",
      product_name |-> Some("Pro Plan"), type |-> "recurring",
      recurring |-> Some([interval |-> "month"])],
     [id |-> "price_abc", unit_amount |-> Some(10000), currency |-> "usd",
      product_name |-> Some("Setup"), type |-> "one_time",
      recurring |-> None],
     [id |-> "price_dup", unit_amount |-> Some(10000), currency |-> "usd",
      product_name |-> Some("Setup"), type |-> "one_time",
      recurring |-> None],
     [id |-> "price_odd", unit_amount |-> Some(205), currency |-> "eur",
      product_name |-> None, type |-> "one_time",
      recurring |-> None],
     [id |-> "price_nil", unit_amount |-> None, currency |-> "eur",
      product_name |-> Some("Metered"), type |-> "recurring",
      recurring |-> Some([interval |-> "year"])] >>

PriceIds == { Prices[i].id : i \in 1..Len(Prices) }

\* the sets of active prices the processor goes through
Catalogs == { {}, {"price_pro", "price_abc", "price_dup"},
              {"price_abc", "price_odd", "price_nil"} }

PriceOf(id) == Prices[CHOOSE i \in 1..Len(Prices) : Prices[i].id = id]

Take(s, n) == IF Len(s) <= n THEN s ELSE SubSeq(s, 1, n)

\* stripe.Price.list(active=True, limit=50, expand=['data.product']).data
PriceList(act) == Take(SelectSeq(Prices, LAMBDA p : p.id \in act), PAGE_LIMIT)

Upper(c) == CASE c = "usd" -> "USD" [] c = "eur" -> "EUR" [] OTHER -> c

\* p.unit_amount / 100 if p.unit_amount else 0
Amount(p) ==
  IF Truthy(p.unit_amount) /\ p.unit_amount[1] # 0
  THEN (p.unit_amount[1] * SCALE) \div 100
  ELSE 0

\* the body of the for loop of get_active_products: label and entry of one price
Recurring(p) == p.type = "recurring" /\ Truthy(p.recurring)
Interval(p)  == IF Recurring(p) THEN p.recurring[1].interval ELSE "one-time"

\* mutant: every price is sold as a one-time payment
ApiModePayment(p) == "payment"

ApiMode(p)   == IF Recurring(p) THEN "subscription" ELSE "payment"
LabelSuffix(p) ==
  IF Recurring(p) THEN <<"/", p.recurring[1].interval>> ELSE <<>>
ProductName(p) == IF Truthy(p.product_name) THEN p.product_name[1]
                  ELSE "Unknown Product"
Label(p) == <<ProductName(p), Amount(p), Upper(p.currency)>> \o LabelSuffix(p)
Entry(p) == [id |-> p.id, amount |-> Amount(p), currency |-> Upper(p.currency),
             mode |-> ApiMode(p), interval |-> Interval(p)]

\* product_options after the loop: a later price overwrites an equal label
RECURSIVE ProductOptions(_)
ProductOptions(ps) ==
  IF ps = <<>> THEN <<>>
  ELSE LET rest == ProductOptions(SubSeq(ps, 1, Len(ps) - 1))
           p    == ps[Len(ps)]
           keep == { l \in DOMAIN rest : l # Label(p) }
       IN  [l \in keep \cup {Label(p)} |->
              IF l = Label(p) THEN Entry(p) ELSE rest[l]]

EmptyMap == <<>>

---------------------------------------------------------------------------
(* Arithmetic of the metadata *)

\* mutant: the discount is left out of the final price
FinalPriceUndiscounted(amount, d) == amount

\* prod_data['amount'] * (1 - (discount / 100))
FinalPrice(amount, d) == (amount * (100 - d)) \div 100

\* f"{x:.2f}": the hundredths nearest to x.  The binary float of a value that
\* lies exactly between two hundredths falls on either side of it, and the
\* text follows the float.
Fmt2(x) ==
  LET lo == x \div (SCALE \div 100)
      r  == x % (SCALE \div 100)
      h  == (SCALE \div 100) \div 2
  IN  IF r < h THEN {lo} ELSE IF r > h THEN {lo + 1} ELSE {lo, lo + 1}

---------------------------------------------------------------------------
(* The processor's customers *)

Emails == {"a@b.com", "c@d.com"}
Names  == {"Ann"}
ExistingIds == { <<"cus", 123>> }

CusId(n) == <<"cus", n>>

Reverse(s) == [i \in 1..Len(s) |-> s[Len(s) + 1 - i]]

\* mutant: the lookup never finds a customer
CustomerListNothing(email) == <<>>

\* stripe.Customer.list(email=email, limit=1).data: newest first
CustomerList(email) ==
  Take(Reverse(SelectSeq(customers, LAMBDA c : c.email = email)), 1)

---------------------------------------------------------------------------
Init ==
  /\ now = 0
  /\ cache = None
  /\ active \in Catalogs
  /\ customers = <<>>
  /\ lastFetch = None
  /\ prevRes = None
  /\ resClean = FALSE
  /\ pc = "idle"
  /\ button = "none"
  /\ discount = 0
  /\ existing_cus_id = <<>>
  /\ new_email = ""
  /\ new_name = ""
  /\ product_map = EmptyMap
  /\ selected = None
  /\ cus_id = None
  /\ session_args = None
  /\ link = None
  /\ calls = <<>>
  /\ shown = <<>>

---------------------------------------------------------------------------
(* The environment *)

Tick ==
  /\ pc = "idle"
  /\ now + TickStep <= MaxTime
  /\ now' = now + TickStep
  /\ UNCHANGED <<cache, active, customers, lastFetch, prevRes, resClean,
                 pc, inputs, locals, calls, shown>>

\* a price is archived or activated at the processor
UpstreamChange(c) ==
  /\ pc = "idle"
  /\ c # active
  /\ active' = c
  /\ UNCHANGED <<now, cache, customers, lastFetch, prevRes, resClean,
                 pc, inputs, locals, calls, shown>>

\* somebody else creates a customer at the processor
OtherActorCreates(e) ==
  /\ pc \in {"idle", "cust_list", "cust_create"}
  /\ Len(customers) < MaxCustomers
  /\ customers' = Append(customers,
        [id |-> CusId(Len(customers) + 1), email |-> e, name |-> "Bob"])
  /\ prevRes' = None
  /\ resClean' = FALSE
  /\ UNCHANGED <<now, cache, active, lastFetch,
                 pc, inputs, locals, calls, shown>>

---------------------------------------------------------------------------
(* A script run *)

\* st.number_input("Discount Percentage (%)", min_value=0, max_value=100)
DiscountInputs == {MIN_DISCOUNT, 10, MAX_DISCOUNT}

\* the operator reloads the page or clicks a button: the script starts over
StartRun(b, d, ec, em, nm) ==
  /\ pc = "idle"
  /\ pc' = "catalog"
  /\ button' = b
  /\ discount' = d
  /\ existing_cus_id' = ec
  /\ new_email' = em
  /\ new_name' = nm
  /\ UNCHANGED <<globals, locals, calls, shown>>

\* the script has ended (st.stop() or its last line): its variables are gone
EndRun ==
  /\ pc = "done"
  /\ pc' = "idle"
  /\ button' = "none"
  /\ discount' = MIN_DISCOUNT
  /\ existing_cus_id' = <<>>
  /\ new_email' = ""
  /\ new_name' = ""
  /\ product_map' = EmptyMap
  /\ selected' = None
  /\ cus_id' = None
  /\ session_args' = None
  /\ link' = None
  /\ calls' = <<>>
  /\ shown' = <<>>
  /\ UNCHANGED globals

\* a remote call: its arguments, whether it answered, and what it answered
Call(op, args, ok, result) ==
  [op |-> op, args |-> args, ok |-> ok, result |-> result]
Elem(kind, text) == [kind |-> kind, text |-> text]

\* lines 146-150: the script stops on an empty product_map
AfterCatalog(pm, sh) ==
  /\ product_map' = pm
  /\ IF DOMAIN pm = {}
     THEN /\ shown' = Append(sh, Elem("warning", <<"No active products">>))
          /\ pc' = "done"
     ELSE /\ shown' = sh
          /\ pc' = "handler"

\* mutant: the entry never expires (ttl left out)
FreshForever(entry) == TRUE

\* st.cache_data: an entry is served while it is younger than ttl
Fresh(entry) == now - entry.at < TTL

\* st.cache_data: does the call have to run the function?
Miss == IF cache = None THEN TRUE ELSE ~Fresh(cache[1])

\* get_active_products() served from the cache; the st.error of the cached run
\* is replayed
CatalogHit ==
  /\ pc = "catalog"
  /\ ~Miss
  /\ AfterCatalog(cache[1].value,
        IF cache[1].err = None THEN shown
        ELSE Append(shown, Elem("error", cache[1].err[1])))
  /\ UNCHANGED <<globals, inputs, selected, cus_id, session_args, link, calls>>

\* what st.cache_data keeps of a run of get_active_products
Store(value, err) == Some([value |-> value, at |-> now, err |-> err])

\* get_active_products() runs and stripe.Price.list answers
CatalogFetchOk ==
  /\ pc = "catalog"
  /\ Miss
  /\ LET pm == ProductOptions(PriceList(active))
     IN  /\ cache' = Store(pm, None)
         /\ AfterCatalog(pm, shown)
         /\ lastFetch' = Some([at |-> now, value |-> pm])
  /\ calls' = Append(calls, Call("Price.list", <<>>, TRUE, PriceList(active)))
  /\ UNCHANGED <<now, active, customers, prevRes, resClean, inputs,
                 selected, cus_id, session_args, link>>

\* get_active_products() runs and stripe.Price.list raises
CatalogFetchFail(msg) ==
  /\ pc = "catalog"
  /\ Miss
  /\ cache' = Store(EmptyMap, Some(msg))
  /\ AfterCatalog(EmptyMap, Append(shown, Elem("error", msg)))
  /\ lastFetch' = Some([at |-> now, value |-> EmptyMap])
  /\ calls' = Append(calls, Call("Price.list", <<>>, FALSE, msg))
  /\ UNCHANGED <<now, active, customers, prevRes, resClean, inputs,
                 selected, cus_id, session_args, link>>

---------------------------------------------------------------------------
(* create_checkout_session *)

GENERATED_BY == "CSM App"
SUCCESS_URL  == "https://example.com/success"

\* lines 96-117: session_args before the discount is applied
SessionArgs(customer_id, price_id, mode, metadata) ==
  LET md == [generated_by |-> GENERATED_BY,
             amount_paid |-> metadata.amount_paid,
             payment_frequency |-> metadata.payment_frequency]
  IN  [customer |-> customer_id,
       line_items |-> <<[price |-> price_id, quantity |-> 1]>>,
       mode |-> mode,
       success_url |-> SUCCESS_URL,
       customer_update |-> [name |-> "auto", address |-> "auto"],
       metadata |-> md,
       subscription_data |->
          IF mode = "subscription" THEN Some([metadata |-> md]) ELSE None,
       discounts |-> None]

\* my_metadata of a handler, for the label l and the text ap of the final price
MyMetadata(l, ap) ==
  [amount_paid |-> ap, payment_frequency |-> product_map[l].interval]

\* the texts f"{final_price:.2f}" can be for the label l
AmountPaid(l) == Fmt2(FinalPrice(product_map[l].amount, discount))

\* mutant: a coupon is created for every request
EnterCheckoutAlwaysCoupon(cid, l, ap) ==
  /\ cus_id' = cid
  /\ session_args' = Some(SessionArgs(cid, product_map[l].id,
                                      product_map[l].mode, MyMetadata(l, ap)))
  /\ pc' = "coupon"

\* the call create_checkout_session(cid, price_id, mode, discount, my_metadata)
\* up to its first remote call
EnterCheckout(cid, l, ap) ==
  /\ cus_id' = cid
  /\ session_args' = Some(SessionArgs(cid, product_map[l].id,
                                      product_map[l].mode, MyMetadata(l, ap)))
  /\ pc' = IF discount > 0 THEN "coupon" ELSE "session"

\* lines 192-196 and 243-246: what the handler renders for the returned link
Render(l) ==
  IF Contains(ErrorWord, l) THEN <<Elem("error", l)>>
  ELSE IF button = "existing"
       THEN <<Elem("success", <<"Link Created!">>), Elem("code", l)>>
       ELSE <<Elem("code", l)>>

\* create_checkout_session returns l and the handler ends
Return(l) ==
  /\ link' = Some(l)
  /\ shown' = shown \o Render(l)
  /\ pc' = "done"

CouponArgs == [percent_off |-> discount, duration |-> "once",
               name |-> <<discount, "% Off (CSM Generated)">>]

CouponIds == { <<"co", 1>>, <<"co", 2>> }

\* stripe.Coupon.create answers with a coupon
CouponCreateOk(c) ==
  /\ pc = "coupon"
  /\ calls' = Append(calls, Call("Coupon.create", CouponArgs, TRUE, c))
  /\ session_args' =
        Some([session_args[1] EXCEPT !.discounts = Some(<<[coupon |-> c]>>)])
  /\ pc' = "session"
  /\ UNCHANGED <<globals, inputs, product_map, selected, cus_id, link, shown>>

\* mutant: the failure of stripe.Coupon.create is swallowed
CouponCreateFailSwallowed(msg) ==
  /\ pc = "coupon"
  /\ calls' = Append(calls, Call("Coupon.create", CouponArgs, FALSE, msg))
  /\ pc' = "session"
  /\ UNCHANGED <<globals, inputs, locals, shown>>

\* stripe.Coupon.create raises
CouponCreateFail(msg) ==
  /\ pc = "coupon"
  /\ calls' = Append(calls, Call("Coupon.create", CouponArgs, FALSE, msg))
  /\ Return(ErrorText(msg))
  /\ UNCHANGED <<globals, inputs, product_map, selected, cus_id, session_args>>

\* stripe.checkout.Session.create answers with a session
SessionCreateOk(url) ==
  /\ pc = "session"
  /\ calls' = Append(calls, Call("Session.create", session_args[1], TRUE, url))
  /\ Return(url)
  /\ UNCHANGED <<globals, inputs, product_map, selected, cus_id, session_args>>

\* mutant: a failed stripe.checkout.Session.create is tried again
SessionCreateFailRetried(msg) ==
  /\ pc = "session"
  /\ calls' = Append(calls, Call("Session.create", session_args[1], FALSE, msg))
  /\ pc' = "session"
  /\ UNCHANGED <<globals, inputs, locals, shown>>

\* stripe.checkout.Session.create raises
SessionCreateFail(msg) ==
  /\ pc = "session"
  /\ calls' = Append(calls, Call("Session.create", session_args[1], FALSE, msg))
  /\ Return(ErrorText(msg))
  /\ UNCHANGED <<globals, inputs, product_map, selected, cus_id, session_args>>

---------------------------------------------------------------------------
(* The button handlers *)

\* no button was clicked: the page is only drawn
Rerender(l) ==
  /\ pc = "handler"
  /\ button = "none"
  /\ l \in DOMAIN product_map
  /\ selected' = Some(l)
  /\ pc' = "done"
  /\ UNCHANGED <<globals, inputs, product_map, cus_id, session_args, link,
                 calls, shown>>

\* "Generate Link (Existing)"
GenerateLinkExisting(l, ap) ==
  /\ pc = "handler"
  /\ button = "existing"
  /\ l \in DOMAIN product_map
  /\ ap \in AmountPaid(l)
  /\ selected' = Some(l)
  /\ IF Truthy(existing_cus_id)
     THEN EnterCheckout(existing_cus_id, l, ap)
     ELSE /\ pc' = "done"
          /\ UNCHANGED <<cus_id, session_args>>
  /\ UNCHANGED <<globals, inputs, product_map, link, calls, shown>>

\* "Create & Generate" up to the first remote call of get_or_create_customer
CreateAndGenerate(l) ==
  /\ pc = "handler"
  /\ button = "new"
  /\ l \in DOMAIN product_map
  /\ selected' = Some(l)
  /\ IF TruthyText(new_email) /\ TruthyText(new_name)
     THEN /\ pc' = "cust_list"
          /\ resClean' = TRUE
     ELSE /\ pc' = "done"
          /\ UNCHANGED resClean
  /\ UNCHANGED <<now, cache, active, customers, lastFetch, prevRes,
                 inputs, product_map, cus_id, session_args, link, calls, shown>>

\* history: the call of get_or_create_customer that just returned an id
Resolution(id) ==
  IF resClean
  THEN Some([email |-> new_email, id |-> id,
             again |-> IF prevRes = None THEN FALSE
                       ELSE prevRes[1].email = new_email])
  ELSE None

\* stripe.Customer.list finds the email: lines 136-137 and 229-241
CustomerListFound ==
  /\ pc = "cust_list"
  /\ CustomerList(new_email) # <<>>
  /\ \E ap \in AmountPaid(selected[1]) :
     LET id == CustomerList(new_email)[1].id
     IN  /\ calls' = Append(calls,
               Call("Customer.list", [email |-> new_email], TRUE,
                    CustomerList(new_email)))
         /\ shown' = Append(shown, Elem("warning", <<"Account exists!", id>>))
         /\ prevRes' = Resolution(id)
         /\ EnterCheckout(id, selected[1], ap)
  /\ UNCHANGED <<now, cache, active, customers, lastFetch, resClean,
                 inputs, product_map, selected, link>>

\* stripe.Customer.list finds nothing: line 136
CustomerListEmpty ==
  /\ pc = "cust_list"
  /\ CustomerList(new_email) = <<>>
  /\ calls' = Append(calls, Call("Customer.list", [email |-> new_email], TRUE,
                             <<>>))
  /\ pc' = "cust_create"
  /\ UNCHANGED <<globals, inputs, locals, shown>>

\* lines 141-142 and 247-248: get_or_create_customer returns (None, False)
ResolutionFailed ==
  /\ cus_id' = None
  /\ prevRes' = None
  /\ shown' = Append(shown, Elem("error", <<"Failed to process customer">>))
  /\ pc' = "done"

\* mutant: a failed stripe.Customer.list counts as "no such customer"
CustomerListFailAsEmpty ==
  /\ pc = "cust_list"
  /\ calls' = Append(calls, Call("Customer.list", [email |-> new_email], FALSE,
                             <<>>))
  /\ pc' = "cust_create"
  /\ UNCHANGED <<globals, inputs, locals, shown>>

\* stripe.Customer.list raises
CustomerListFail ==
  /\ pc = "cust_list"
  /\ calls' = Append(calls, Call("Customer.list", [email |-> new_email], FALSE,
                             <<>>))
  /\ ResolutionFailed
  /\ UNCHANGED <<now, cache, active, customers, lastFetch, resClean,
                 inputs, product_map, selected, session_args, link>>

CreateArgs == [email |-> new_email, name |-> new_name]

\* stripe.Customer.create answers: lines 139-140 and 229-241
CustomerCreateOk ==
  /\ pc = "cust_create"
  /\ Len(customers) < MaxCustomers
  /\ \E ap \in AmountPaid(selected[1]) :
     LET id == CusId(Len(customers) + 1)
     IN  /\ customers' = Append(customers,
               [id |-> id, email |-> new_email, name |-> new_name])
         /\ calls' = Append(calls,
               Call("Customer.create", CreateArgs, TRUE, id))
         /\ shown' = Append(shown,
               Elem("success", <<"New Customer created", id>>))
         /\ prevRes' = Resolution(id)
         /\ EnterCheckout(id, selected[1], ap)
  /\ UNCHANGED <<now, cache, active, lastFetch, resClean,
                 inputs, product_map, selected, link>>

\* stripe.Customer.create raises
CustomerCreateFail ==
  /\ pc = "cust_create"
  /\ calls' = Append(calls, Call("Customer.create", CreateArgs, FALSE, <<>>))
  /\ ResolutionFailed
  /\ UNCHANGED <<now, cache, active, customers, lastFetch, resClean,
                 inputs, product_map, selected, session_args, link>>

---------------------------------------------------------------------------
ButtonInputs ==
  { <<"none", <<>>, "", "">> }
  \cup { <<"existing", ec, "", "">> : ec \in ExistingIds \cup {<<>>} }
  \cup { <<"new", <<>>, em, nm>> : em \in Emails, nm \in Names }
  \cup { <<"new", <<>>, "", "Ann">>, <<"new", <<>>, "a@b.com", "">> }

Next ==
  \/ Tick
  \/ \E c \in Catalogs : UpstreamChange(c)
  \/ \E e \in Emails : OtherActorCreates(e)
  \/ \E d \in DiscountInputs, b \in ButtonInputs :
        StartRun(b[1], d, b[2], b[3], b[4])
  \/ EndRun
  \/ CatalogHit
  \/ CatalogFetchOk
  \/ \E msg \in ErrorMessages : CatalogFetchFail(msg)
  \/ \E l \in DOMAIN product_map : Rerender(l)
  \/ \E l \in DOMAIN product_map : \E ap \in AmountPaid(l) :
        GenerateLinkExisting(l, ap)
  \/ \E l \in DOMAIN product_map : CreateAndGenerate(l)
  \/ CustomerListFound
  \/ CustomerListEmpty
  \/ CustomerListFail
  \/ CustomerCreateOk
  \/ CustomerCreateFail
  \/ \E c \in CouponIds : CouponCreateOk(c)
  \/ \E msg \in ErrorMessages : CouponCreateFail(msg)
  \/ \E url \in SessionUrls : SessionCreateOk(url)
  \/ \E msg \in ErrorMessages : SessionCreateFail(msg)

Spec == Init /\ [][Next]_vars

---------------------------------------------------------------------------
(* Reading the log of a run *)

Idx(op)   == { i \in DOMAIN calls : calls[i].op = op }
Count(op) == Cardinality(Idx(op))
Failed(ops) == { i \in DOMAIN calls : calls[i].op \in ops /\ ~calls[i].ok }
Shows(kind) == { i \in DOMAIN shown : shown[i].kind = kind }

\* this step issues the remote call op
Issues(op) ==
  /\ Len(calls') = Len(calls) + 1
  /\ calls'[Len(calls')].op = op

\* the price record behind a session-create call
PriceOfCall(c) == PriceOf(c.args.line_items[1].price)

\* create_checkout_session has been called in this run
CheckoutEntered == session_args # None

---------------------------------------------------------------------------
(* C1: in a request with discount percent > 0 every session-create call is *)
(* preceded by a successful coupon-create call, and a failed coupon-create *)
(* call is followed by no session-create call.                             *)
C1_CouponBeforeSession ==
  discount > 0 =>
    /\ \A i \in Idx("Session.create") :
          \E j \in 1..(i - 1) : calls[j].op = "Coupon.create" /\ calls[j].ok
    /\ \A j \in Failed({"Coupon.create"}) :
          \A i \in Idx("Session.create") : i < j

C1_Witness ==
  /\ pc = "done"
  /\ discount > 0
  /\ Failed({"Coupon.create"}) # {}
  /\ Count("Session.create") = 0
  /\ link # None

(* C2: in the new-customer flow a failed customer list or customer create  *)
(* call ends the request: it is the last remote call of the request, the   *)
(* failure "Failed to process customer" is what the request renders last,  *)
(* and no link is produced or shown.                                       *)
C2_CustomerResolutionFailed ==
  \A i \in Failed({"Customer.list", "Customer.create"}) :
     /\ button = "new"
     /\ i = Len(calls)
     /\ pc = "done"
     /\ Count("Coupon.create") = 0
     /\ Count("Session.create") = 0
     /\ link = None
     /\ Shows("code") = {}
     /\ shown # <<>>
     /\ shown[Len(shown)] = Elem("error", <<"Failed to process customer">>)

C2_Witness ==
  /\ pc = "done"
  /\ Failed({"Customer.create"}) # {}
  /\ Count("Customer.list") = 1

(* C3: a request that reached create_checkout_session shows the session    *)
(* URL as a link if and only if the session-create call succeeded, and     *)
(* shows a failure carrying the remote error message if and only if the    *)
(* coupon-create or the session-create call failed.                        *)
C3_LinkIffSessionCreated ==
  (pc = "done" /\ link # None) =>
    LET created == { i \in Idx("Session.create") : calls[i].ok }
        failed  == Failed({"Coupon.create", "Session.create"})
        asLink  == { i \in Shows("code") : shown[i].text = link[1] }
        asError == { i \in Shows("error") : shown[i].text = link[1] }
    IN  /\ (created # {}) <=> (asLink # {} /\ asError = {})
        /\ (failed # {}) <=> (asError # {} /\ asLink = {})
        /\ \A i \in created : link[1] = calls[i].result
        /\ \A i \in failed : link[1] = ErrorText(calls[i].result)

(* C4: a remote call that failed is issued again when the operator repeats *)
(* the action; for the catalog: a script run that starts while the         *)
(* remembered catalog is the empty one of a failed list-prices call issues *)
(* the list-prices call again.                                             *)
C4_RetryRefetches ==
  [][ (/\ pc = "catalog"
       /\ cache # None
       /\ cache[1].err # None) => Issues("Price.list") ]_vars

(* C5: within one action each of customer list, customer create, coupon    *)
(* create and session create is called at most once, and exactly once when *)
(* the run has passed its step.                                            *)
C5_NoRetries ==
  /\ \A op \in {"Customer.list", "Customer.create", "Coupon.create",
                "Session.create"} : Count(op) <= 1
  /\ (/\ pc \in {"cust_create", "coupon", "session", "done"}
      /\ selected # None
      /\ button = "new"
      /\ TruthyText(new_email)
      /\ TruthyText(new_name)) => Count("Customer.list") = 1
  /\ (/\ pc # "cust_create"
      /\ \E i \in Idx("Customer.list") : calls[i].ok /\ calls[i].result = <<>>)
        => Count("Customer.create") = 1
  /\ (CheckoutEntered /\ pc \in {"session", "done"} /\ discount > 0)
        => Count("Coupon.create") = 1
  /\ (CheckoutEntered /\ pc = "done" /\ Failed({"Coupon.create"}) = {})
        => Count("Session.create") = 1

C5_Witness ==
  /\ pc = "done"
  /\ Count("Customer.list") = 1
  /\ Count("Customer.create") = 1
  /\ Count("Coupon.create") = 1
  /\ Failed({"Session.create"}) # {}

(* C6: a call of get_or_create_customer that returns an id right after a   *)
(* call that returned an id for the same email, no other actor having      *)
(* created a customer since the first began, returns the same id, returns  *)
(* it as existing (from the lookup), and creates no customer.              *)
C6_SameCustomerTwice ==
  [][ (/\ pc \in {"cust_list", "cust_create"}
       /\ pc' \in {"coupon", "session"}
       /\ resClean
       /\ prevRes # None
       /\ prevRes[1].email = new_email)
      => /\ cus_id' = prevRes[1].id
         /\ Issues("Customer.list")
         /\ calls'[Len(calls')].result # <<>>
         /\ \A i \in DOMAIN calls' : calls'[i].op # "Customer.create"
         /\ customers' = customers ]_vars

C6_Witness ==
  /\ pc \in {"coupon", "session"}
  /\ prevRes # None
  /\ prevRes[1].again
  /\ prevRes[1].id = cus_id
  /\ Len(SelectSeq(customers, LAMBDA c : c.email = new_email)) = 1

(* C7: a coupon-create call is issued exactly in the requests that have    *)
(* percent > 0 and reached the session step; it is one call, with          *)
(* percent_off the requested percent and duration "once".  A session is    *)
(* created without discounts when percent = 0 and with the one-element     *)
(* list holding the coupon of that call when percent > 0.                  *)
C7_CouponIffDiscount ==
  /\ Count("Coupon.create") <= 1
  /\ (Count("Coupon.create") = 1) <=>
        (discount > 0 /\ CheckoutEntered /\ pc \in {"session", "done"})
  /\ \A j \in Idx("Coupon.create") :
        /\ calls[j].args.percent_off = discount
        /\ calls[j].args.duration = "once"
  /\ \A i \in Idx("Session.create") :
        IF discount = 0
        THEN calls[i].args.discounts = None
        ELSE \E j \in Idx("Coupon.create") :
                /\ j < i
                /\ calls[j].ok
                /\ calls[i].args.discounts =
                      Some(<<[coupon |-> calls[j].result]>>)

C7_Witness ==
  /\ pc = "done"
  /\ discount = 10
  /\ \E i \in Idx("Session.create") :
        /\ calls[i].ok
        /\ calls[i].args.discounts = Some(<<[coupon |-> <<"co", 2>>]>>)

(* C8: every entry of the fetched catalog has mode "subscription" if its   *)
(* price is of type recurring and "payment" otherwise, and every           *)
(* session-create call is issued with the id and the mode of the entry     *)
(* selected, which is that mode of its price.                              *)
ModeOfType(p) == IF p.type = "recurring" THEN "subscription" ELSE "payment"

C8_ModeMatchesPrice ==
  /\ \A l \in DOMAIN product_map :
        product_map[l].mode = ModeOfType(PriceOf(product_map[l].id))
  /\ cache # None =>
        \A l \in DOMAIN cache[1].value :
           cache[1].value[l].mode = ModeOfType(PriceOf(cache[1].value[l].id))
  /\ \A i \in Idx("Session.create") :
        /\ selected # None
        /\ calls[i].args.line_items =
              <<[price |-> product_map[selected[1]].id, quantity |-> 1]>>
        /\ calls[i].args.mode = product_map[selected[1]].mode
        /\ calls[i].args.mode = ModeOfType(PriceOfCall(calls[i]))

C8_Witness ==
  /\ pc = "done"
  /\ \E i \in Idx("Session.create") :
        /\ calls[i].ok
        /\ PriceOfCall(calls[i]).type = "recurring"
        /\ calls[i].args.mode = "subscription"

(* C9: no list-prices call is issued less than TTL seconds after the one   *)
(* before it; a run that starts less than TTL seconds after the latest     *)
(* list-prices call reads the catalog of that call, whatever the prices    *)
(* are by then; a run that starts with no call made, or TTL seconds or     *)
(* more after the latest, issues a list-prices call; a customer, coupon or *)
(* session call leaves the cached catalog as it is.                        *)
C9_CachedForTtl ==
  [][ /\ (Issues("Price.list") /\ lastFetch # None)
            => now - lastFetch[1].at >= TTL
      /\ (pc = "catalog" /\ lastFetch # None /\ now - lastFetch[1].at < TTL)
            => /\ ~Issues("Price.list")
               /\ product_map' = lastFetch[1].value
      /\ (pc = "catalog" /\ (IF lastFetch = None THEN TRUE
                             ELSE now - lastFetch[1].at >= TTL))
            => Issues("Price.list")
      /\ (\E op \in {"Customer.list", "Customer.create", "Coupon.create",
                     "Session.create"} : Issues(op))
            => cache' = cache ]_vars

C9_Witness ==
  /\ pc = "handler"
  /\ calls = <<>>
  /\ lastFetch # None
  /\ now - lastFetch[1].at = TickStep
  /\ product_map = lastFetch[1].value
  /\ product_map # ProductOptions(PriceList(active))

(* C10: every session-create call carries metadata with the provenance     *)
(* tag, the interval of the selected price ("one-time" if it is not        *)
(* recurring) and the amount times (1 - percent/100) to two decimals: the  *)
(* hundredths nearest to it, the amount itself when percent = 0, and 90.00 *)
(* for 100.00 at 10%.  subscription_data carries the same metadata when    *)
(* the mode is subscription and is absent when it is payment.              *)
MinorOf(p) == IF p.unit_amount = None THEN 0 ELSE p.unit_amount[1]
FrequencyOf(p) ==
  IF p.type = "recurring" THEN p.recurring[1].interval ELSE "one-time"

C10_Metadata ==
  \A i \in Idx("Session.create") :
     LET a  == calls[i].args
         p  == PriceOfCall(calls[i])
         ap == a.metadata.amount_paid
     IN  /\ a.metadata.generated_by = "CSM App"
         /\ a.metadata.payment_frequency = FrequencyOf(p)
         /\ 2 * (100 * ap - MinorOf(p) * (100 - discount)) \in -100..100
         /\ discount = 0 => ap = MinorOf(p)
         /\ (MinorOf(p) = 10000 /\ discount = 10) => ap = 9000
         /\ IF a.mode = "subscription"
            THEN a.subscription_data = Some([metadata |-> a.metadata])
            ELSE a.mode = "payment" /\ a.subscription_data = None

C10_Witness ==
  /\ pc = "done"
  /\ discount = 10
  /\ \E i \in Idx("Session.create") :
        /\ calls[i].ok
        /\ MinorOf(PriceOfCall(calls[i])) = 10000
        /\ calls[i].args.metadata.amount_paid = 9000
        /\ calls[i].args.subscription_data = None

===========================================================================
